---------------------------- MODULE Spec2Model ----------------------------
(***************************************************************************)
(* Model of the kraken kernel's 4-level x86-64 page-table manager          *)
(* (src/src/kernel/mm/paging.c) together with the memset primitive it      *)
(* uses (src/unnamed/part_000).                                            *)
(*                                                                         *)
(* A 64-bit word (address, entry, flag mask) is the set of its 1-bit       *)
(* positions, a subset of 0..63: & is intersection, | is union, ~ is the   *)
(* complement in 0..63, shifts move positions and + adds with carries,      *)
(* dropping the carry out of bit 63.  All widths are the real ones.         *)
(*                                                                         *)
(* Physical memory is a map from the byte address of an 8-byte entry to    *)
(* the word stored there.  A location that was never written holds what    *)
(* was left in its frame (leftover), chosen once, in Init.                 *)
(***************************************************************************)
EXTENDS Integers, Sequences, FiniteSets, TLC

\* ------------------------------------------------------------------ bounds
\* number of page frames the physical allocator can hand out
MaxFrames == 3
\* number of operations issued in one run
MaxOps == 2
\* number of operations and memory accesses in one run of the active-root forms
MaxTlbOps == 3
\* largest page count given to a range operation
MaxNum == 4

\* --------------------------------------------------------------- 64-bit words
WordBits == 64
Zero == {}

\* the word of a small natural number
ToWord(n) == {b \in 0 .. 30 : (n \div (2 ^ b)) % 2 = 1}

BitAnd(a, b) == a \cap b
BitOr(a, b) == a \cup b
BitNot(a) == (0 .. WordBits - 1) \ a
Shr(a, n) == {b - n : b \in {x \in a : x >= n}}
Shl(a, n) == {b + n : b \in {x \in a : x + n < WordBits}}

\* the carry into bit i of a + b: some lower bit j generates a carry (both
\* operands have it) and every bit between j and i passes it on (exactly one has it)
Carry(a, b, i) ==
    \E j \in a \cap b :
        j < i /\ \A k \in (j + 1) .. (i - 1) : (k \in a) # (k \in b)

\* a + b modulo 2^64: bit i of the sum is a_i xor b_i xor carry_i
Add(a, b) ==
    IF a \cap b = {} THEN a \cup b
    ELSE {i \in 0 .. WordBits - 1 : ((i \in a) # (i \in b)) # Carry(a, b, i)}

\* a - 1 modulo 2^64
Dec(a) ==
    IF a = {} THEN 0 .. WordBits - 1
    ELSE LET k == CHOOSE x \in a : \A y \in a : x <= y
         IN  (a \ {k}) \cup (0 .. k - 1)

\* a % align, align a power of two
Mod(a, align) == BitAnd(a, Dec(align))

\* ------------------------------------------------- constants of mm/paging.h
PAGE_OFFSET_SIZE == 12
PAGE_IDX_SIZE == 9
PAGE_SIZE == ToWord(4096)
PAGE_IDX_MASK == ToWord(511)
PAGE_ADDR == 12 .. 51
PAGE_PRESENT == {0}
PAGE_WRITABLE == {1}
PAGE_USER == {2}
PAGE_NX == {63}
PML4 == 3
PML1 == 0
NULL == Zero
\* sizeof(pml_entry_t) is 8: entries[idx] lies idx << 3 bytes into its table
EntryShift == 3
\* sizeof(ptable) in paging_create: the size of a pointer
SizeofPtr == 8

ALIGN_DOWN(addr, align) == BitAnd(addr, BitNot(Dec(align)))

\* ------------------------------------------------------------ memory layout
\* the top-level table of the address space, an empty (all zero) table
Root == ToWord(4096)
\* the frames of the physical allocator's zone, in the order it hands them out
PoolFrame(k) == ToWord(65536 + k * 4096)
Pool == {PoolFrame(k) : k \in 1 .. MaxFrames}
\* some frame that is no table and that the allocator does not own
Wild == ToWord(8388608)
\* what memory can hold before anything of this subsystem wrote to it:
\* zeroes, or words that look like a present entry
JunkPresent == BitOr(Wild, BitOr(PAGE_PRESENT, PAGE_USER))
Garbage == {Zero, JunkPresent}
\* memory is told apart by who owns it: the allocator's zone, everything else
Regions == {"zone", "other"}

VARIABLES
    mem,        \* byte address of an entry -> the word stored there (written ones)
    leftover,   \* region -> the word every unwritten entry of its frames holds
    used,       \* frames the physical allocator has handed out
    tlb,        \* pages whose translation the local processor caches
    cr3,        \* the control register naming the active top-level table
    nulltrap,   \* whether an access to page 0 traps on this machine
    halted,     \* the kernel panicked
    budget,     \* operations that may still be issued
    last,       \* the operation that led to this state, and what it reported
    prev,       \* mem, used, tlb and last as they were before that operation
    cpus        \* processor -> where it is in a __paging_map it runs step by step

vars == <<mem, leftover, used, tlb, cr3, nulltrap, halted, budget, last, prev, cpus>>

PageOf(ptr) == ALIGN_DOWN(ptr, PAGE_SIZE)

\* the contents of a location nothing wrote to yet
LeftOver(frame) ==
    IF frame = Root THEN Zero
    ELSE IF frame \in Pool THEN leftover["zone"]
    ELSE leftover["other"]

Load(m, ptr) == IF ptr \in DOMAIN m THEN m[ptr] ELSE LeftOver(PageOf(ptr))
Store(m, ptr, w) == [x \in DOMAIN m \cup {ptr} |-> IF x = ptr THEN w ELSE m[x]]

\* an access through a pointer into page 0 (a null table, a null entry) is
\* undefined: it goes through, or the processor traps and the kernel panics;
\* which of the two is a property of the machine (trap)
Traps(ptr, trap) == trap /\ PageOf(ptr) = NULL

\* ------------------------------------------------------------- entry codec
\* paging_set_flags without its check of the mask
paging_set_flags_unguarded(m, pentry, flags) ==
    Store(m, pentry, BitOr(Load(m, pentry), flags))

paging_set_flags(m, pentry, flags) ==
    IF BitAnd(flags, PAGE_ADDR) # Zero THEN m
    ELSE Store(m, pentry, BitOr(Load(m, pentry), flags))

paging_clear_flags(m, pentry, flags) ==
    IF BitAnd(flags, PAGE_ADDR) # Zero THEN m
    ELSE Store(m, pentry, BitAnd(Load(m, pentry), BitNot(flags)))

paging_check_flags(m, pentry, flags) ==
    IF BitAnd(flags, PAGE_ADDR) # Zero THEN FALSE
    ELSE BitAnd(Load(m, pentry), flags) = flags

\* paging_set_paddr that does not clear the address the entry held
paging_set_paddr_no_clear(m, pentry, paddr) ==
    LET p == IF Mod(paddr, PAGE_SIZE) # Zero THEN ALIGN_DOWN(paddr, PAGE_SIZE) ELSE paddr
    IN  Store(m, pentry, BitOr(Load(m, pentry), BitAnd(p, PAGE_ADDR)))

paging_set_paddr(m, pentry, paddr) ==
    LET p == IF Mod(paddr, PAGE_SIZE) # Zero THEN ALIGN_DOWN(paddr, PAGE_SIZE) ELSE paddr
        cleared == BitAnd(Load(m, pentry), BitNot(PAGE_ADDR))
    IN  Store(m, pentry, BitOr(cleared, BitAnd(p, PAGE_ADDR)))

paging_get_paddr(m, pentry) == BitAnd(Load(m, pentry), PAGE_ADDR)

\* ------------------------------------------------------- address decomposer
\* paging_vaddr_idx that forgets the bits of the page offset
paging_vaddr_idx_no_offset(vaddr, level) ==
    BitAnd(Shr(vaddr, PAGE_IDX_SIZE * level), PAGE_IDX_MASK)

paging_vaddr_idx(vaddr, level) ==
    BitAnd(Shr(vaddr, PAGE_IDX_SIZE * level + PAGE_OFFSET_SIZE), PAGE_IDX_MASK)

\* ------------------------------------------------------- physical allocator
\* pmm_alloc(zone, 1): the first frame of the zone not handed out, or NULL
\* when none is left
pmm_alloc(u) ==
    IF Pool \ u = {} THEN NULL
    ELSE PoolFrame(CHOOSE k \in 1 .. MaxFrames :
                      /\ PoolFrame(k) \notin u
                      /\ \A j \in 1 .. k - 1 : PoolFrame(j) \in u)

\* pmm_free(paddr, 1): the frame at exactly paddr is the allocator's again
pmm_free(u, paddr) == u \ {paddr}

\* ---------------------------------------------------------- memory primitive
\* the 8 bytes of a word, each holding the low byte of c
ByteFill(c) == {8 * k + b : k \in 0 .. 7, b \in BitAnd(ToWord(c), ToWord(255))}

\* memset(buf, c, n): bytes buf .. buf+n-1 are set to c; memory is kept by
\* whole entries, so the entries those n bytes cover are rewritten
memset(m, buf, c, n) ==
    LET covered == {Add(buf, Shl(ToWord(k), EntryShift)) : k \in 0 .. (n \div 8) - 1}
    IN  [x \in DOMAIN m \cup covered |-> IF x \in covered THEN ByteFill(c) ELSE m[x]]

\* ---------------------------------------------------------- table allocator
\* paging_create: [ptable, mem, used, fault]
paging_create(m, u, trap) ==
    LET ptable == pmm_alloc(u)
    IN  IF Traps(ptable, trap)
        THEN [ptable |-> ptable, mem |-> m, used |-> u, fault |-> TRUE]
        ELSE [ptable |-> ptable,
              mem |-> memset(m, ptable, 0, SizeofPtr),
              used |-> IF ptable = NULL THEN u ELSE u \cup {ptable},
              fault |-> FALSE]

\* paging_destroy that hands the address to the allocator as it got it
paging_destroy_unaligned(u, ptable) == pmm_free(u, ptable)

\* paging_destroy: the allocator state after it
paging_destroy(u, ptable) ==
    LET paddr == IF Mod(ptable, PAGE_SIZE) # Zero
                 THEN ALIGN_DOWN(ptable, PAGE_SIZE) ELSE ptable
    IN  pmm_free(u, paddr)

\* -------------------------------------------------------------- table walker
\* the one element of a singleton set: { e(x) : x \in {v} } computes v once
Pick(S) == CHOOSE x \in S : TRUE

\* the result of a walk: the entry returned (NULL: failure), memory and
\* allocator after it, whether it trapped, and the levels it looked at, in order
WalkResult(m, u, pentry, fault, seen) ==
    [mem |-> m, used |-> u, pentry |-> pentry, fault |-> fault, seen |-> seen,
     found |-> FALSE]

\* the walk reached the requested level and returns its entry
WalkFound(m, u, pentry, seen) ==
    [mem |-> m, used |-> u, pentry |-> pentry, fault |-> FALSE, seen |-> seen,
     found |-> TRUE]

\* the loop of paging_walk, from level i down
RECURSIVE WalkLoop(_, _, _, _, _, _, _, _, _)
WalkLoop(m, u, curr_table, vaddr, i, level, create, trap, seen) ==
    IF i < level THEN WalkResult(m, u, NULL, FALSE, seen)
    ELSE Pick({
        IF i = level THEN WalkFound(m, u, pentry, Append(seen, i))
        ELSE IF Traps(pentry, trap) THEN WalkResult(m, u, NULL, TRUE, Append(seen, i))
        ELSE IF paging_check_flags(m, pentry, PAGE_PRESENT)
        THEN Pick({WalkLoop(m, u, next, vaddr, (i + 255) % 256, level, create, trap,
                            Append(seen, i)) : next \in {paging_get_paddr(m, pentry)}})
        ELSE IF create
        THEN Pick({
                IF c.fault THEN WalkResult(m, u, NULL, TRUE, Append(seen, i))
                ELSE Pick({WalkLoop(m2, c.used, c.ptable, vaddr, (i + 255) % 256, level,
                                    create, trap, Append(seen, i)) :
                           m2 \in {paging_set_flags(
                                      paging_set_paddr(c.mem, pentry, c.ptable),
                                      pentry, PAGE_PRESENT)}})
                : c \in {paging_create(m, u, trap)}})
        ELSE WalkResult(m, u, NULL, FALSE, Append(seen, i))
        : pentry \in {Add(curr_table, Shl(paging_vaddr_idx(vaddr, i), EntryShift))}})

paging_walk(m, u, pml4_table, vaddr, level, create, trap) ==
    IF pml4_table = NULL THEN WalkResult(m, u, NULL, FALSE, <<>>)
    ELSE Pick({WalkLoop(m, u, pml4_table, v, PML4, level, create, trap, <<>>) :
               v \in {IF Mod(vaddr, PAGE_SIZE) # Zero
                      THEN ALIGN_DOWN(vaddr, PAGE_SIZE) ELSE vaddr}})

\* ------------------------------------------------------------ mapping manager
\* the result of a map or an unmap: memory and allocator after it, and what
\* it reported: "ok", "conflict", "nullroot", or "fault" (trapped, panic)
OpResult(m, u, status) == [mem |-> m, used |-> u, status |-> status]

\* __paging_map without its check of the present bit: it writes the entry of
\* a page that is already mapped
__paging_map_overwrite(m, u, pml4_table, vaddr, paddr, flags, trap) ==
    IF pml4_table = NULL THEN OpResult(m, u, "nullroot")
    ELSE Pick({
        IF w.fault \/ Traps(w.pentry, trap) THEN OpResult(w.mem, w.used, "fault")
        ELSE OpResult(paging_set_paddr(paging_set_flags(w.mem, w.pentry, flags),
                                       w.pentry, paddr),
                      w.used, "ok")
        : w \in {paging_walk(m, u, pml4_table, vaddr, PML1, TRUE, trap)}})

__paging_map(m, u, pml4_table, vaddr, paddr, flags, trap) ==
    IF pml4_table = NULL THEN OpResult(m, u, "nullroot")
    ELSE Pick({
        IF w.fault \/ Traps(w.pentry, trap) THEN OpResult(w.mem, w.used, "fault")
        ELSE IF paging_check_flags(w.mem, w.pentry, PAGE_PRESENT)
        THEN OpResult(w.mem, w.used, "conflict")
        ELSE OpResult(paging_set_paddr(paging_set_flags(w.mem, w.pentry, flags),
                                       w.pentry, p),
                      w.used, "ok")
        : w \in {paging_walk(m, u, pml4_table,
                             IF Mod(vaddr, PAGE_SIZE) # Zero
                             THEN ALIGN_DOWN(vaddr, PAGE_SIZE) ELSE vaddr,
                             PML1, TRUE, trap)},
          p \in {IF Mod(paddr, PAGE_SIZE) # Zero
                 THEN ALIGN_DOWN(paddr, PAGE_SIZE) ELSE paddr}})

\* __paging_unmap that clears the present bit only and keeps the rest of the entry
__paging_unmap_keep_address(m, u, pml4_table, vaddr, trap) ==
    IF pml4_table = NULL THEN OpResult(m, u, "nullroot")
    ELSE Pick({
        IF w.fault \/ Traps(w.pentry, trap) THEN OpResult(w.mem, w.used, "fault")
        ELSE OpResult(paging_clear_flags(w.mem, w.pentry, PAGE_PRESENT), w.used, "ok")
        : w \in {paging_walk(m, u, pml4_table, vaddr, PML1, FALSE, trap)}})

\* __paging_unmap without its check of the root
__paging_unmap_no_root_check(m, u, pml4_table, vaddr, trap) ==
    Pick({
        IF w.fault \/ Traps(w.pentry, trap) THEN OpResult(w.mem, w.used, "fault")
        ELSE OpResult(Store(w.mem, w.pentry, Zero), w.used, "ok")
        : w \in {paging_walk(m, u, pml4_table, vaddr, PML1, FALSE, trap)}})

__paging_unmap(m, u, pml4_table, vaddr, trap) ==
    IF pml4_table = NULL THEN OpResult(m, u, "nullroot")
    ELSE Pick({
        IF w.fault \/ Traps(w.pentry, trap) THEN OpResult(w.mem, w.used, "fault")
        ELSE OpResult(Store(w.mem, w.pentry, Zero), w.used, "ok")
        : w \in {paging_walk(m, u, pml4_table,
                             IF Mod(vaddr, PAGE_SIZE) # Zero
                             THEN ALIGN_DOWN(vaddr, PAGE_SIZE) ELSE vaddr,
                             PML1, FALSE, trap)}})

\* the outcome of a range operation: memory and allocator after it, and what
\* each page's operation reported, in order; a trap ends it (the kernel halts)
RECURSIVE __paging_maps(_, _, _, _, _, _, _, _)
__paging_maps(m, u, pml4_table, vaddr, paddr, num, flags, trap) ==
    IF num = 0 THEN OpResult(m, u, <<>>)
    ELSE Pick({
        IF r.status = "fault" THEN OpResult(r.mem, r.used, <<r.status>>)
        ELSE Pick({OpResult(rest.mem, rest.used, <<r.status>> \o rest.status) :
                   rest \in {__paging_maps(r.mem, r.used, pml4_table, v2, p2,
                                           num - 1, flags, trap)}})
        : r \in {__paging_map(m, u, pml4_table, vaddr, paddr, flags, trap)},
          v2 \in {Add(vaddr, PAGE_SIZE)}, p2 \in {Add(paddr, PAGE_SIZE)}})

RECURSIVE __paging_unmaps(_, _, _, _, _, _)
__paging_unmaps(m, u, pml4_table, vaddr, num, trap) ==
    IF num = 0 THEN OpResult(m, u, <<>>)
    ELSE Pick({
        IF r.status = "fault" THEN OpResult(r.mem, r.used, <<r.status>>)
        ELSE Pick({OpResult(rest.mem, rest.used, <<r.status>> \o rest.status) :
                   rest \in {__paging_unmaps(r.mem, r.used, pml4_table, v2,
                                             num - 1, trap)}})
        : r \in {__paging_unmap(m, u, pml4_table, vaddr, trap)},
          v2 \in {Add(vaddr, PAGE_SIZE)}})

\* ----------------------------------------------------------- active-root forms
\* paging_cr3: the table named by the control register
paging_cr3 == ALIGN_DOWN(cr3, PAGE_SIZE)

\* invlpg: the local processor drops its cached translation of vaddr's page
invlpg(t, vaddr) == t \ {PageOf(vaddr)}

paging_map(m, u, vaddr, paddr, flags, trap) ==
    __paging_map(m, u, paging_cr3, vaddr, paddr, flags, trap)

RECURSIVE paging_maps(_, _, _, _, _, _, _)
paging_maps(m, u, vaddr, paddr, num, flags, trap) ==
    IF num = 0 THEN OpResult(m, u, <<>>)
    ELSE Pick({
        IF r.status = "fault" THEN OpResult(r.mem, r.used, <<r.status>>)
        ELSE Pick({OpResult(rest.mem, rest.used, <<r.status>> \o rest.status) :
                   rest \in {paging_maps(r.mem, r.used, v2, p2, num - 1, flags, trap)}})
        : r \in {paging_map(m, u, vaddr, paddr, flags, trap)},
          v2 \in {Add(vaddr, PAGE_SIZE)}, p2 \in {Add(paddr, PAGE_SIZE)}})

\* the result of an unmap on the active root: [mem, used, status, tlb]
TlbResult(m, u, status, t) == [mem |-> m, used |-> u, status |-> status, tlb |-> t]

\* paging_unmap that forgets the invalidation
paging_unmap_no_invlpg(m, u, t, vaddr, trap) ==
    Pick({TlbResult(r.mem, r.used, r.status, t)
          : r \in {__paging_unmap(m, u, paging_cr3, vaddr, trap)}})

paging_unmap(m, u, t, vaddr, trap) ==
    Pick({TlbResult(r.mem, r.used, r.status,
                    IF r.status = "fault" THEN t ELSE invlpg(t, vaddr))
          : r \in {__paging_unmap(m, u, paging_cr3, vaddr, trap)}})

RECURSIVE paging_unmaps(_, _, _, _, _, _)
paging_unmaps(m, u, t, vaddr, num, trap) ==
    IF num = 0 THEN TlbResult(m, u, <<>>, t)
    ELSE Pick({
        IF r.status = "fault" THEN TlbResult(r.mem, r.used, <<r.status>>, r.tlb)
        ELSE Pick({TlbResult(rest.mem, rest.used, <<r.status>> \o rest.status, rest.tlb) :
                   rest \in {paging_unmaps(r.mem, r.used, r.tlb, v2, num - 1, trap)}})
        : r \in {paging_unmap(m, u, t, vaddr, trap)},
          v2 \in {Add(vaddr, PAGE_SIZE)}})

\* ------------------------------------------------------------------- inputs
VBase == ToWord(4194304)
\* two pages under one leaf table, and one under another leaf table
Vaddrs == {VBase, Add(VBase, PAGE_SIZE), ToWord(6291456)}
PBase == ToWord(1048576)
PWFlags == BitOr(PAGE_PRESENT, PAGE_WRITABLE)
\* physical address and flags of a mapping request; the last has no present bit
Targets == {<<PBase, PWFlags>>, <<ToWord(2097152), BitOr(PAGE_PRESENT, PAGE_USER)>>,
            <<PBase, PAGE_WRITABLE>>}
\* a sub-page offset of a misaligned address
Skew == ToWord(24)

\* <<root, vaddr, paddr, flags>> of the calls of __paging_map
MapCalls ==
    {<<Root, v, t[1], t[2]>> : v \in Vaddrs, t \in Targets}
    \cup {<<Root, Add(VBase, Skew), Add(PBase, Skew), PWFlags>>,
          <<Root, VBase, Add(PBase, Skew), PWFlags>>,
          <<NULL, VBase, PBase, PWFlags>>}

\* <<root, vaddr>> of the calls of __paging_unmap
UnmapCalls ==
    {<<Root, v>> : v \in Vaddrs} \cup {<<Root, Add(VBase, Skew)>>, <<NULL, VBase>>}

\* ------------------------------------------------------------ state machine
Call(op, root, vaddr, paddr, flags, num, status) ==
    [op |-> op, root |-> root, vaddr |-> vaddr, paddr |-> paddr,
     flags |-> flags, num |-> num, status |-> status]

NoOp == Call("none", NULL, Zero, Zero, Zero, 0, <<>>)

\* the call ended in a panic: on a trap, or in the page fault handler
Faulted(status) == \E i \in DOMAIN status : status[i] \in {"fault", "panic"}

\* the processors that share the hierarchy
CPUs == {1, 2}

\* a processor that runs no __paging_map; serial: the callers of this run start
\* a __paging_map only when no other processor is inside one
IdleCpu(serial) ==
    [pc |-> "idle", serial |-> serial, vaddr |-> Zero, paddr |-> Zero, flags |-> Zero,
     i |-> PML4, curr_table |-> NULL, pentry |-> NULL, child |-> NULL, status |-> "none"]

InitState(ops) ==
    /\ mem = <<>>
    /\ leftover \in [Regions -> Garbage]
    /\ used = {}
    /\ tlb = {}
    /\ cr3 = BitOr(Root, Skew)
    /\ nulltrap \in BOOLEAN
    /\ halted = FALSE
    /\ budget = ops
    /\ last = NoOp
    /\ prev = [mem |-> <<>>, used |-> {}, tlb |-> {}, last |-> NoOp]

InitWith(ops) == InitState(ops) /\ cpus = [c \in CPUs |-> IdleCpu(FALSE)]

Init == InitWith(MaxOps)

\* what every operation does around its effect on memory, allocator and cache
Step(m, u, t, rec) ==
    /\ ~halted
    /\ budget > 0
    /\ mem' = m
    /\ used' = u
    /\ tlb' = t
    /\ halted' = Faulted(rec.status)
    /\ budget' = budget - 1
    /\ last' = rec
    /\ prev' = [mem |-> mem, used |-> used, tlb |-> tlb, last |-> last]
    /\ UNCHANGED <<leftover, cr3, nulltrap, cpus>>

Map ==
    \E c \in MapCalls :
        \E r \in {__paging_map(mem, used, c[1], c[2], c[3], c[4], nulltrap)} :
            Step(r.mem, r.used, tlb,
                 Call("map", c[1], c[2], c[3], c[4], 1, <<r.status>>))

Unmap ==
    \E c \in UnmapCalls :
        \E r \in {__paging_unmap(mem, used, c[1], c[2], nulltrap)} :
            Step(r.mem, r.used, tlb,
                 Call("unmap", c[1], c[2], Zero, Zero, 1, <<r.status>>))

\* <<root, vaddr, paddr, num, flags>> of the calls of __paging_maps: from the
\* base of a leaf table reached through first entries only (virtual page 0),
\* and from VBase
RangeCalls ==
    {<<Root, v, PBase, n, PWFlags>> : v \in {Zero, VBase}, n \in 1 .. MaxNum}
    \cup {<<Root, Add(VBase, Skew), Add(PBase, Skew), MaxNum, PWFlags>>,
          <<NULL, VBase, PBase, 1, PWFlags>>}

Maps ==
    \E c \in RangeCalls :
        \E r \in {__paging_maps(mem, used, c[1], c[2], c[3], c[4], c[5], nulltrap)} :
            Step(r.mem, r.used, tlb,
                 Call("maps", c[1], c[2], c[3], c[5], c[4], r.status))

Unmaps ==
    \E c \in RangeCalls :
        \E r \in {__paging_unmaps(mem, used, c[1], c[2], c[4], nulltrap)} :
            Step(r.mem, r.used, tlb,
                 Call("unmaps", c[1], c[2], Zero, Zero, c[4], r.status))

\* <<vaddr, paddr, flags>> of the calls of paging_map, <<vaddr>> of paging_unmap
ActiveCalls ==
    {<<VBase, PBase, PWFlags>>, <<Add(VBase, PAGE_SIZE), PBase, PWFlags>>,
     <<Add(VBase, Skew), PBase, PWFlags>>}

PagingMap ==
    \E c \in ActiveCalls :
        \E r \in {paging_map(mem, used, c[1], c[2], c[3], nulltrap)} :
            Step(r.mem, r.used, tlb,
                 Call("paging_map", paging_cr3, c[1], c[2], c[3], 1, <<r.status>>))

PagingMaps ==
    \E c \in ActiveCalls, n \in {MaxNum - 1} :
        \E r \in {paging_maps(mem, used, c[1], c[2], n, c[3], nulltrap)} :
            Step(r.mem, r.used, tlb,
                 Call("paging_maps", paging_cr3, c[1], c[2], c[3], n, r.status))

PagingUnmap ==
    \E c \in ActiveCalls :
        \E r \in {paging_unmap(mem, used, tlb, c[1], nulltrap)} :
            Step(r.mem, r.used, r.tlb,
                 Call("paging_unmap", paging_cr3, c[1], Zero, Zero, 1, <<r.status>>))

PagingUnmaps ==
    \E c \in ActiveCalls, n \in {MaxNum - 1} :
        \E r \in {paging_unmaps(mem, used, tlb, c[1], n, nulltrap)} :
            Step(r.mem, r.used, r.tlb,
                 Call("paging_unmaps", paging_cr3, c[1], Zero, Zero, n, r.status))

\* the processor reads or writes vaddr: a cached translation is used as it is;
\* otherwise the hardware walks the active tables and caches the translation
\* it finds, or raises a page fault, which the handler ends in a panic
Access ==
    \E v \in {VBase, Add(VBase, PAGE_SIZE)} :
        \E w \in {paging_walk(mem, used, paging_cr3, v, PML1, FALSE, FALSE)} :
            \E ok \in {PageOf(v) \in tlb
                        \/ (w.found /\ paging_check_flags(mem, w.pentry, PAGE_PRESENT))} :
                Step(mem, used, IF ok THEN tlb \cup {PageOf(v)} ELSE tlb,
                     Call("access", paging_cr3, v, Zero, Zero, 1,
                          <<IF ok THEN "ok" ELSE "fault">>))

\* ---- the page fault handler
\* the bits of the fault code the handler decodes
PAGE_FAULT_P_MASK == {0}
PAGE_FAULT_WR_MASK == {1}
PAGE_FAULT_US_MASK == {2}
PAGE_FAULT_RSVD_MASK == {3}
PAGE_FAULT_IF_MASK == {4}
PAGE_FAULT_PK_MASK == {5}
PAGE_FAULT_SGX_MASK == {15}

\* one log line of the handler: yes when the mask's bit is set in the code
Decode(error_code, mask, yes, no) ==
    IF BitAnd(error_code, mask) # Zero THEN yes ELSE no

\* page_fault_intr_handler with the protection-key line chosen by the
\* instruction-fetch bit
page_fault_intr_handler_pk_by_if(error_code) ==
    <<"linear address", "error code",
      Decode(error_code, PAGE_FAULT_P_MASK, "protection violation", "non-present page"),
      Decode(error_code, PAGE_FAULT_WR_MASK, "write", "read"),
      Decode(error_code, PAGE_FAULT_US_MASK, "user-mode", "supervisor-mode"),
      Decode(error_code, PAGE_FAULT_RSVD_MASK, "reserved bit", "no reserved bit"),
      Decode(error_code, PAGE_FAULT_IF_MASK, "instruction fetch", "no instruction fetch"),
      Decode(error_code, PAGE_FAULT_IF_MASK, "protection key", "no protection key"),
      Decode(error_code, PAGE_FAULT_SGX_MASK, "SGX", "not SGX"),
      "panic">>

\* page_fault_intr_handler: the lines it logs, in order, the last one by panic
page_fault_intr_handler(error_code) ==
    <<"linear address", "error code",
      Decode(error_code, PAGE_FAULT_P_MASK, "protection violation", "non-present page"),
      Decode(error_code, PAGE_FAULT_WR_MASK, "write", "read"),
      Decode(error_code, PAGE_FAULT_US_MASK, "user-mode", "supervisor-mode"),
      Decode(error_code, PAGE_FAULT_RSVD_MASK, "reserved bit", "no reserved bit"),
      Decode(error_code, PAGE_FAULT_IF_MASK, "instruction fetch", "no instruction fetch"),
      Decode(error_code, PAGE_FAULT_PK_MASK, "protection key", "no protection key"),
      Decode(error_code, PAGE_FAULT_SGX_MASK, "SGX", "not SGX"),
      "panic">>

\* fault codes: every combination of the decoded bits, and two codes with
\* bits the handler does not decode
FaultCodes ==
    SUBSET (0 .. 5 \cup {15}) \cup {{6}, {0, 6, 31}}

\* a page fault: the processor hands the handler the faulting address (cr2,
\* recorded as vaddr) and the fault code (recorded as flags)
PageFault ==
    \E cr2 \in {Add(VBase, Skew)}, error_code \in FaultCodes :
        Step(mem, used, tlb,
             Call("page_fault", paging_cr3, cr2, Zero, error_code, 1,
                  page_fault_intr_handler(error_code)))

\* ---- the address decomposer called on its own
\* values of one level's index field: none, all and alternating bits
FieldValues == {Zero, ToWord(511), ToWord(341)}
\* virtual addresses with a known value in each level's field, with and
\* without page offset bits, with and without the bits above the four fields
SyntheticVaddrs ==
    {Shl(f[1], 12) \cup Shl(f[2], 21) \cup Shl(f[3], 30) \cup Shl(f[4], 39)
       \cup off \cup high :
     f \in [1 .. 4 -> FieldValues], off \in {Zero, ToWord(4095)},
     high \in {Zero, 48 .. 63}}

\* paging_vaddr_idx applied to one address and level, once in a run; the
\* level is recorded as num and the index returned as paddr
VaddrIdx ==
    /\ last = NoOp
    /\ \E v \in SyntheticVaddrs, level \in PML1 .. PML4 :
          Step(mem, used, tlb,
               Call("vaddr_idx", NULL, v, paging_vaddr_idx(v, level), Zero, level,
                    <<"ok">>))

\* ---- the entry codec called on its own; the entry it is given is recorded
\* ---- as the root of the call
\* an entry of the top-level table, and a word of memory that is no table
CodecEntries == {Root, Add(Wild, ToWord(8))}
\* flag masks: three of flag bits only, three that reach into the address bits
CodecMasks ==
    {PAGE_PRESENT, PWFlags, PAGE_NX, BitOr(PAGE_PRESENT, Wild), {12}, {51, 63}}
\* physical addresses: aligned, off by a sub-page offset, and one that is also
\* wider than the address field
CodecAddrs ==
    {PBase, Add(PBase, Skew), ToWord(2097152), BitOr(Add(Wild, Skew), {52, 63})}

SetFlags ==
    \E e \in CodecEntries, f \in CodecMasks :
        Step(paging_set_flags(mem, e, f), used, tlb,
             Call("set_flags", e, Zero, Zero, f, 1, <<"ok">>))

ClearFlags ==
    \E e \in CodecEntries, f \in CodecMasks :
        Step(paging_clear_flags(mem, e, f), used, tlb,
             Call("clear_flags", e, Zero, Zero, f, 1, <<"ok">>))

CheckFlags ==
    \E e \in CodecEntries, f \in CodecMasks :
        Step(mem, used, tlb,
             Call("check_flags", e, Zero, Zero, f, 1,
                  <<IF paging_check_flags(mem, e, f) THEN "true" ELSE "false">>))

SetPaddr ==
    \E e \in CodecEntries, p \in CodecAddrs :
        Step(paging_set_paddr(mem, e, p), used, tlb,
             Call("set_paddr", e, Zero, p, Zero, 1, <<"ok">>))

\* ------------------------------------------------------------ specifications
\* single-page operations on an explicit root
Next == Map \/ Unmap

Spec == Init /\ [][Next]_vars

\* range operations
NextRange == Map \/ Maps \/ Unmaps \/ PagingMaps

SpecRange == Init /\ [][NextRange]_vars

\* the active-root forms, the explicit unmap, and the processor's accesses
InitTlb == InitWith(MaxTlbOps)

NextTlb == PagingMap \/ Access \/ PagingUnmap \/ PagingUnmaps \/ Unmap

SpecTlb == InitTlb /\ [][NextTlb]_vars

\* page faults, in an empty hierarchy and after maps
NextFault == Map \/ PageFault

SpecFault == Init /\ [][NextFault]_vars

\* the address decomposer
NextIdx == VaddrIdx

SpecIdx == Init /\ [][NextIdx]_vars

\* the entry codec
NextCodec == SetFlags \/ ClearFlags \/ CheckFlags \/ SetPaddr

SpecCodec == Init /\ [][NextCodec]_vars

\* ------------------------------------------- __paging_map on two processors
\* Nothing in paging.c takes a lock, so a __paging_map that runs on one
\* processor is a sequence of separate reads and writes of entries, and the
\* reads and writes of another processor can fall between any two of them.
\* Each operator below is one such piece: [mem, used, cpu] after it, cpu being
\* the processor's own variables (vaddr, paddr, flags, i, curr_table, pentry,
\* child_table) and the place it is at (pc).
CpuResult(m, u, l) == [mem |-> m, used |-> u, cpu |-> l]

\* the processor is out of __paging_map, which reported status
CpuDone(l, status) == [l EXCEPT !.pc = "done", !.status = status]

\* entry of __paging_map: the checks of the root and of the two addresses,
\* then the first iteration of the walk is about to run
MapEnter(l, pml4_table, vaddr, paddr, flags) ==
    IF pml4_table = NULL THEN CpuDone(l, "nullroot")
    ELSE [l EXCEPT !.pc = "walk", !.status = "none",
                   !.vaddr = IF Mod(vaddr, PAGE_SIZE) # Zero
                             THEN ALIGN_DOWN(vaddr, PAGE_SIZE) ELSE vaddr,
                   !.paddr = IF Mod(paddr, PAGE_SIZE) # Zero
                             THEN ALIGN_DOWN(paddr, PAGE_SIZE) ELSE paddr,
                   !.flags = flags, !.i = PML4, !.curr_table = pml4_table,
                   !.pentry = NULL, !.child = NULL]

\* one iteration of the loop of paging_walk(root, vaddr, PML1, true) up to its
\* read of the entry: at the leaf level the entry is returned, a present entry
\* is followed, a non-present one sends the processor to paging_create
MapWalk(m, u, l, trap) ==
    Pick({
        IF l.i = PML1 THEN CpuResult(m, u, [l EXCEPT !.pc = "check", !.pentry = pentry])
        ELSE IF Traps(pentry, trap) THEN CpuResult(m, u, CpuDone(l, "fault"))
        ELSE IF paging_check_flags(m, pentry, PAGE_PRESENT)
        THEN CpuResult(m, u, [l EXCEPT !.pentry = pentry,
                                       !.curr_table = paging_get_paddr(m, pentry),
                                       !.i = (l.i + 255) % 256])
        ELSE CpuResult(m, u, [l EXCEPT !.pc = "create", !.pentry = pentry])
        : pentry \in {Add(l.curr_table, Shl(paging_vaddr_idx(l.vaddr, l.i), EntryShift))}})

\* child_table = paging_create()
MapCreate(m, u, l, trap) ==
    Pick({
        IF c.fault THEN CpuResult(m, u, CpuDone(l, "fault"))
        ELSE CpuResult(c.mem, c.used, [l EXCEPT !.pc = "link", !.child = c.ptable])
        : c \in {paging_create(m, u, trap)}})

\* the entry read as non-present is made to point to the child table, and the
\* walk goes on in the child table
MapLink(m, u, l, trap) ==
    CpuResult(paging_set_flags(paging_set_paddr(m, l.pentry, l.child),
                               l.pentry, PAGE_PRESENT),
              u,
              [l EXCEPT !.pc = "walk", !.curr_table = l.child,
                        !.i = (l.i + 255) % 256])

\* the check of the leaf entry that lets a second map of a page through
MapCheck_no_conflict(m, u, l, trap) ==
    IF Traps(l.pentry, trap) THEN CpuResult(m, u, CpuDone(l, "fault"))
    ELSE CpuResult(m, u, [l EXCEPT !.pc = "write"])

\* the check of the leaf entry: a present entry aborts the map
MapCheck(m, u, l, trap) ==
    IF Traps(l.pentry, trap) THEN CpuResult(m, u, CpuDone(l, "fault"))
    ELSE IF paging_check_flags(m, l.pentry, PAGE_PRESENT)
    THEN CpuResult(m, u, CpuDone(l, "conflict"))
    ELSE CpuResult(m, u, [l EXCEPT !.pc = "write"])

\* the entry found empty gets its flags and its address
MapWrite(m, u, l, trap) ==
    CpuResult(paging_set_paddr(paging_set_flags(m, l.pentry, l.flags),
                               l.pentry, l.paddr),
              u, CpuDone(l, "ok"))

\* the maps the processors ask for: pages of one leaf table, each processor
\* with a frame of its own
OtherFrame == ToWord(2097152)
CpuCalls(c) ==
    {<<Root, v, IF c = 1 THEN PBase ELSE OtherFrame, PWFlags>> :
        v \in {VBase, Add(VBase, PAGE_SIZE)}}

\* what every piece does around its effect on memory and allocator
CpuStep(c, r) ==
    /\ mem' = r.mem
    /\ used' = r.used
    /\ cpus' = [cpus EXCEPT ![c] = r.cpu]
    /\ halted' = Faulted(<<r.cpu.status>>)
    /\ UNCHANGED <<leftover, tlb, cr3, nulltrap, last, prev>>

\* a processor enters __paging_map; in a serial run only when no other
\* processor is inside it
CpuEnter ==
    \E c \in CPUs : \E call \in CpuCalls(c) :
        /\ ~halted
        /\ budget > 0
        /\ cpus[c].pc \in {"idle", "done"}
        /\ cpus[c].serial => \A o \in CPUs : cpus[o].pc \in {"idle", "done"}
        /\ budget' = budget - 1
        /\ CpuStep(c, CpuResult(mem, used,
                                MapEnter(cpus[c], call[1], call[2], call[3], call[4])))

CpuAt(c, pc) == ~halted /\ cpus[c].pc = pc /\ UNCHANGED budget

CpuWalk ==
    \E c \in CPUs :
        CpuAt(c, "walk") /\ \E r \in {MapWalk(mem, used, cpus[c], nulltrap)} : CpuStep(c, r)

CpuCreate ==
    \E c \in CPUs :
        CpuAt(c, "create") /\ \E r \in {MapCreate(mem, used, cpus[c], nulltrap)} : CpuStep(c, r)

CpuLink ==
    \E c \in CPUs :
        CpuAt(c, "link") /\ \E r \in {MapLink(mem, used, cpus[c], nulltrap)} : CpuStep(c, r)

CpuCheck ==
    \E c \in CPUs :
        CpuAt(c, "check") /\ \E r \in {MapCheck(mem, used, cpus[c], nulltrap)} : CpuStep(c, r)

CpuWrite ==
    \E c \in CPUs :
        CpuAt(c, "write") /\ \E r \in {MapWrite(mem, used, cpus[c], nulltrap)} : CpuStep(c, r)

\* two processors, their maps interleaved or (serial) one at a time
InitSmp == InitState(MaxOps) /\ cpus \in {[c \in CPUs |-> IdleCpu(s)] : s \in BOOLEAN}

NextSmp == CpuEnter \/ CpuWalk \/ CpuCreate \/ CpuLink \/ CpuCheck \/ CpuWrite

SpecSmp == InitSmp /\ [][NextSmp]_vars

\* ===================================================================== claims
\* number of entries of one table (one page of 8-byte entries)
TableEntries == 512

\* a leaf-level lookup of vaddr: paging_walk(root, vaddr, PML1, false)
Lookup(m, root, vaddr) == paging_walk(m, used, root, vaddr, PML1, FALSE, FALSE)

\* vaddr is mapped: the lookup returns an entry of a table (not of the null
\* page) and the entry is present
Mapped(m, root, vaddr) ==
    LET w == Lookup(m, root, vaddr)
    IN  w.found /\ PageOf(w.pentry) # NULL /\ paging_check_flags(m, w.pentry, PAGE_PRESENT)

\* the leaf table of vaddr exists: the lookup reaches an entry of a table
LeafTableExists(m, root, vaddr) ==
    LET w == Lookup(m, root, vaddr) IN w.found /\ PageOf(w.pentry) # NULL

\* the number of table levels missing on the path of vaddr: the lookup stops at
\* the first non-present entry, at level i, and the i tables below it are missing
MissingLevels(m, root, vaddr) ==
    LET w == Lookup(m, root, vaddr)
    IN  IF w.found THEN 0 ELSE w.seen[Len(w.seen)]

Aligned(a) == Mod(a, PAGE_SIZE) = Zero
ValidFlags(f) == BitAnd(f, PAGE_PRESENT) = PAGE_PRESENT /\ BitAnd(f, PAGE_ADDR) = Zero

\* the last operation was a single-page map on a non-null root
DidMap == last.op = "map" /\ last.root # NULL
DidUnmap == last.op = "unmap" /\ last.root # NULL

\* C1 (as claimed): after __paging_map of a page-aligned vaddr that was not
\* mapped, to a page-aligned paddr with flags that hold PAGE_PRESENT and no
\* address bit, the leaf lookup of vaddr returns a present entry whose address
\* is paddr.
C1_RoundTrip ==
    (/\ DidMap
     /\ Aligned(last.vaddr) /\ Aligned(last.paddr) /\ ValidFlags(last.flags)
     /\ ~Mapped(prev.mem, last.root, last.vaddr))
    => LET w == Lookup(mem, last.root, last.vaddr)
       IN  /\ w.found
           /\ paging_get_paddr(mem, w.pentry) = last.paddr
           /\ paging_check_flags(mem, w.pentry, PAGE_PRESENT)

\* C2: a __paging_map of a vaddr that is already mapped reports a conflict and
\* changes neither memory (no entry, no table) nor the allocator.
C2_NoOverwrite ==
    (DidMap /\ Mapped(prev.mem, last.root, last.vaddr))
    => /\ last.status = <<"conflict">>
       /\ mem = prev.mem
       /\ used = prev.used

C2_Witness ==
    /\ DidMap
    /\ Mapped(prev.mem, last.root, last.vaddr)
    /\ last.status = <<"conflict">>
    /\ prev.used # {}
    /\ LET w == Lookup(mem, last.root, last.vaddr)
       IN  /\ paging_get_paddr(mem, w.pentry) # ALIGN_DOWN(last.paddr, PAGE_SIZE)
           /\ BitAnd(Load(mem, w.pentry), last.flags) # last.flags

\* C3: after __paging_unmap of a vaddr whose leaf table exists, the leaf entry
\* of vaddr holds exactly 0, whether or not it was present before.
C3_UnmapClears ==
    (DidUnmap /\ LeafTableExists(prev.mem, last.root, last.vaddr))
    => LET w == Lookup(prev.mem, last.root, last.vaddr)
       IN  /\ last.status = <<"ok">>
           /\ w.pentry \in DOMAIN mem
           /\ mem[w.pentry] = Zero
           /\ Lookup(mem, last.root, last.vaddr).pentry = w.pentry

\* an unmap of a page that was mapped to PBase
C3_Witness ==
    /\ DidUnmap
    /\ Mapped(prev.mem, last.root, last.vaddr)
    /\ paging_get_paddr(prev.mem, Lookup(prev.mem, last.root, last.vaddr).pentry) = PBase
    /\ Load(mem, Lookup(mem, last.root, last.vaddr).pentry) = Zero

\* the entries of a table: the addresses of its 512 words
EntriesOf(table) == {Add(table, Shl(ToWord(i), EntryShift)) : i \in 0 .. TableEntries - 1}

\* C4 (as claimed): every entry of a table that paging_create produced is zero
\* unless the walker or a map wrote it: nothing is left of the frame's contents.
C4_TablesZeroed ==
    \A table \in used : \A e \in EntriesOf(table) :
        e \notin DOMAIN mem => Load(mem, e) = Zero

\* C5 (as claimed): a __paging_map that runs to its end requests from the
\* allocator as many frames as table levels were missing on the path of vaddr
\* (0 to 3).  Frames are counted while the allocator still has one to give, so
\* that every request is a frame handed out.
C5_LazyCreation ==
    (DidMap /\ last.status # <<"fault">> /\ Pool \ used # {})
    => Cardinality(used) - Cardinality(prev.used)
         = MissingLevels(prev.mem, last.root, last.vaddr)

\* the pages a call names: those of vaddr + i * PAGE_SIZE for i < num
RECURSIVE PagesOf(_, _)
PagesOf(vaddr, num) ==
    IF num = 0 THEN {}
    ELSE {PageOf(vaddr)} \cup PagesOf(Add(vaddr, PAGE_SIZE), num - 1)

\* the last operation returned to its caller
Returned == ~Faulted(last.status)

\* C6 (as claimed): when an unmap returns, whether of the explicit-root form or
\* of the active-root form, the local translation cache holds no translation
\* of the pages it unmapped.
C6_EveryUnmapInvalidates ==
    (/\ last.op \in {"unmap", "paging_unmap", "paging_unmaps"}
     /\ last.root # NULL
     /\ Returned)
    => PagesOf(last.vaddr, last.num) \cap tlb = {}

\* C6 (amended): when paging_unmap or paging_unmaps returns, the local
\* translation cache holds no translation of the pages it unmapped and still
\* holds every other one; __paging_unmap leaves the cache as it was.
C6_ActiveUnmapInvalidates ==
    /\ (last.op \in {"paging_unmap", "paging_unmaps"} /\ Returned)
       => /\ PagesOf(last.vaddr, last.num) \cap tlb = {}
          /\ tlb = prev.tlb \ PagesOf(last.vaddr, last.num)
    /\ (last.op = "unmap") => tlb = prev.tlb

\* a translation that was cached is gone after paging_unmap of its page
C6_Witness ==
    /\ last.op = "paging_unmap"
    /\ last.status = <<"ok">>
    /\ PageOf(last.vaddr) \in prev.tlb
    /\ PageOf(last.vaddr) \notin tlb
    /\ Load(mem, Lookup(prev.mem, last.root, last.vaddr).pentry) = Zero

\* sub-page offsets: the smallest and the largest
Offsets == {ToWord(1), ToWord(4095)}

\* C7: called in any reachable state with an address that is off its page
\* boundary by a sub-page offset d, each operation that takes an address gives
\* the same returned entry, memory, allocator state and translation cache as
\* called with the address rounded down: paging_walk, __paging_map (vaddr,
\* paddr or both off), __paging_unmap, the range forms, the active-root forms,
\* paging_set_paddr and paging_destroy.
C7_AlignmentCorrection ==
    \A d \in Offsets :
        /\ \A v \in {VBase, ToWord(6291456)} :
              /\ \A level \in {PML1, 2}, create \in BOOLEAN :
                    paging_walk(mem, used, Root, Add(v, d), level, create, nulltrap)
                      = paging_walk(mem, used, Root, v, level, create, nulltrap)
              /\ \A off \in {<<d, Zero>>, <<Zero, d>>, <<d, d>>} :
                    __paging_map(mem, used, Root, Add(v, off[1]), Add(PBase, off[2]),
                                 PWFlags, nulltrap)
                      = __paging_map(mem, used, Root, v, PBase, PWFlags, nulltrap)
              /\ __paging_unmap(mem, used, Root, Add(v, d), nulltrap)
                   = __paging_unmap(mem, used, Root, v, nulltrap)
        /\ __paging_maps(mem, used, Root, Add(VBase, d), Add(PBase, d), 2, PWFlags,
                         nulltrap)
             = __paging_maps(mem, used, Root, VBase, PBase, 2, PWFlags, nulltrap)
        /\ __paging_unmaps(mem, used, Root, Add(VBase, d), 2, nulltrap)
             = __paging_unmaps(mem, used, Root, VBase, 2, nulltrap)
        /\ paging_map(mem, used, Add(VBase, d), Add(PBase, d), PWFlags, nulltrap)
             = paging_map(mem, used, VBase, PBase, PWFlags, nulltrap)
        /\ paging_maps(mem, used, Add(VBase, d), Add(PBase, d), 2, PWFlags, nulltrap)
             = paging_maps(mem, used, VBase, PBase, 2, PWFlags, nulltrap)
        /\ \A t \in {{}, {VBase, Add(VBase, PAGE_SIZE)}} :
              /\ paging_unmap(mem, used, t, Add(VBase, d), nulltrap)
                   = paging_unmap(mem, used, t, VBase, nulltrap)
              /\ paging_unmaps(mem, used, t, Add(VBase, d), 2, nulltrap)
                   = paging_unmaps(mem, used, t, VBase, 2, nulltrap)
        /\ \A pentry \in DOMAIN mem \cup {Root} :
              paging_set_paddr(mem, pentry, Add(PBase, d))
                = paging_set_paddr(mem, pentry, PBase)
        /\ \A table \in used \cup {Root} :
              paging_destroy(used, Add(table, d)) = paging_destroy(used, table)

\* a map called with vaddr and paddr both off their page boundary did what the
\* map of the rounded addresses does, and the page is mapped to the rounded paddr
C7_Witness ==
    /\ DidMap
    /\ ~Aligned(last.vaddr) /\ ~Aligned(last.paddr)
    /\ last.status = <<"ok">>
    /\ used # {}
    /\ mem = __paging_map(prev.mem, prev.used, last.root, PageOf(last.vaddr),
                          PageOf(last.paddr), last.flags, nulltrap).mem
    /\ Mapped(mem, last.root, PageOf(last.vaddr))
    /\ paging_get_paddr(mem, Lookup(mem, last.root, last.vaddr).pentry)
         = PageOf(last.paddr)

\* C8: paging_set_flags, paging_clear_flags and paging_check_flags called with
\* a mask that has a bit inside PAGE_ADDR change nothing in memory, the entry
\* keeps its raw value, and paging_check_flags returns false.
C8_FlagAddressIsolation ==
    (/\ last.op \in {"set_flags", "clear_flags", "check_flags"}
     /\ BitAnd(last.flags, PAGE_ADDR) # Zero)
    => /\ mem = prev.mem
       /\ Load(mem, last.root) = Load(prev.mem, last.root)
       /\ (last.op = "check_flags" => last.status = <<"false">>)

\* paging_set_flags was given a mask with a flag bit and an address bit, and
\* the entry, which is not zero, still lacks a bit of the mask
C8_Witness ==
    /\ last.op = "set_flags"
    /\ BitAnd(last.flags, PAGE_ADDR) # Zero
    /\ BitAnd(last.flags, BitNot(PAGE_ADDR)) # Zero
    /\ Load(mem, last.root) # Zero
    /\ BitAnd(Load(mem, last.root), last.flags) # last.flags

\* the address i pages after a
PageAt(a, i) == Add(a, Shl(ToWord(i), PAGE_OFFSET_SIZE))

\* the last operation was a range map with aligned addresses on a non-null
\* root, and it returned
DidMaps ==
    /\ last.op = "maps" /\ last.root # NULL /\ Returned
    /\ Aligned(last.vaddr) /\ Aligned(last.paddr)

\* C9 (as claimed): __paging_maps(root, v, p, n, PRESENT|WRITABLE) on an empty
\* root makes the leaf lookup of v + i * PAGE_SIZE decode to p + i * PAGE_SIZE
\* for every i < n, and a following __paging_unmaps(root, v, n) leaves each of
\* those n leaf entries with raw value 0.
C9_RangeOperations ==
    /\ (DidMaps /\ prev.last = NoOp)
       => \A i \in 0 .. last.num - 1 :
             LET w == Lookup(mem, last.root, PageAt(last.vaddr, i))
             IN  /\ w.found
                 /\ paging_get_paddr(mem, w.pentry) = PageAt(last.paddr, i)
    /\ (/\ last.op = "unmaps" /\ Returned
        /\ prev.last.op = "maps" /\ budget = MaxOps - 2
        /\ prev.last.root = last.root /\ last.root # NULL
        /\ prev.last.vaddr = last.vaddr /\ Aligned(last.vaddr)
        /\ prev.last.num = last.num)
       => \A i \in 0 .. last.num - 1 :
             LET w == Lookup(prev.mem, last.root, PageAt(last.vaddr, i))
             IN  w.found /\ Load(mem, w.pentry) = Zero

\* the mapping of vaddr in memory m: the raw value of its leaf entry when it is
\* mapped, and none when it is not
Unmapped == [mapped |-> FALSE, entry |-> Zero]
MappingOf(m, root, vaddr) ==
    IF Mapped(m, root, vaddr)
    THEN [mapped |-> TRUE, entry |-> Load(m, Lookup(m, root, vaddr).pentry)]
    ELSE Unmapped

\* C10 (as claimed): when __paging_maps meets its first mapping conflict at page
\* k, 0 < k < n, the pages before k are mapped to p + i * PAGE_SIZE after the
\* call, and page k has the mapping it had before the call.
C10_NotTransactional ==
    DidMaps =>
        \A k \in 1 .. last.num - 1 :
            (/\ last.status[k + 1] = "conflict"
             /\ \A i \in 0 .. k - 1 : last.status[i + 1] = "ok")
            => /\ \A i \in 0 .. k - 1 :
                      /\ Mapped(mem, last.root, PageAt(last.vaddr, i))
                      /\ paging_get_paddr(mem, Lookup(mem, last.root,
                                                      PageAt(last.vaddr, i)).pentry)
                           = PageAt(last.paddr, i)
               /\ MappingOf(prev.mem, last.root, PageAt(last.vaddr, k)) # Unmapped
               /\ MappingOf(mem, last.root, PageAt(last.vaddr, k))
                    = MappingOf(prev.mem, last.root, PageAt(last.vaddr, k))

\* memories m1 and m2 hold the same word at every location either was written at
SameContents(m1, m2) ==
    \A a \in DOMAIN m1 \cup DOMAIN m2 : Load(m1, a) = Load(m2, a)

\* the entry of level i on the path of vaddr, following the address field of
\* each entry above it whatever its flags
RECURSIVE PathEntry(_, _, _, _)
PathEntry(m, root, vaddr, i) ==
    LET table == IF i = PML4 THEN root
                 ELSE paging_get_paddr(m, PathEntry(m, root, vaddr, i + 1))
    IN  Add(table, Shl(paging_vaddr_idx(vaddr, i), EntryShift))

\* C11 (as claimed): a __paging_unmap of a vaddr whose lookup-only walk meets a
\* non-present intermediate entry is aborted: it returns, no location of
\* memory holds another word than before, and the allocator is as before.
C11_LookupFailureAborts ==
    (DidUnmap /\ ~Lookup(prev.mem, last.root, last.vaddr).found)
    => /\ ~halted
       /\ SameContents(mem, prev.mem)
       /\ used = prev.used

\* C12 (as claimed): a __paging_map that needs a new table when the allocator
\* has no frame left fails and returns, and the parent entry that lacked the
\* table is not left present with an address that is no allocated table.
C12_AllocatorFailurePropagates ==
    (/\ DidMap
     /\ Pool \subseteq prev.used
     /\ ~Lookup(prev.mem, last.root, last.vaddr).found)
    => LET parent == PathEntry(prev.mem, last.root, last.vaddr,
                               MissingLevels(prev.mem, last.root, last.vaddr))
       IN  /\ ~halted
           /\ last.status # <<"ok">>
           /\ ~(/\ paging_check_flags(mem, parent, PAGE_PRESENT)
                /\ paging_get_paddr(mem, parent) \notin used)

\* C13: called with a null root, __paging_map and __paging_unmap return at
\* once, reporting it, with memory and allocator as they were, and paging_walk
\* returns NULL having looked at no entry, whatever the level and the create flag.
C13_InvalidRoot ==
    /\ (last.op \in {"map", "unmap"} /\ last.root = NULL)
       => /\ last.status = <<"nullroot">>
          /\ ~halted
          /\ mem = prev.mem
          /\ used = prev.used
    /\ \A v \in Vaddrs, level \in PML1 .. PML4, create \in BOOLEAN :
          LET w == paging_walk(mem, used, NULL, v, level, create, nulltrap)
          IN  /\ w.pentry = NULL /\ ~w.found /\ ~w.fault
              /\ w.seen = <<>>
              /\ w.mem = mem /\ w.used = used

\* an unmap with a null root after a map that built tables
C13_Witness ==
    /\ last.op = "unmap" /\ last.root = NULL
    /\ last.status = <<"nullroot">>
    /\ prev.last.op = "map" /\ prev.last.status = <<"ok">>
    /\ used # {}
    /\ mem = prev.mem

\* the seven decoded bits in the order of their lines, with the line logged
\* when the bit is set and the one logged when it is clear
FaultLines ==
    <<<<0, "protection violation", "non-present page">>,
      <<1, "write", "read">>,
      <<2, "user-mode", "supervisor-mode">>,
      <<3, "reserved bit", "no reserved bit">>,
      <<4, "instruction fetch", "no instruction fetch">>,
      <<5, "protection key", "no protection key">>,
      <<15, "SGX", "not SGX">>>>

\* what holds when the handler has run: the address line, the code line, one
\* line for each of the seven bits, chosen by that bit alone, the panic; the
\* kernel is halted and memory, allocator and cache are as the fault found them
AfterPageFault ==
    (last.op = "page_fault")
    => /\ halted
       /\ mem = prev.mem /\ used = prev.used /\ tlb = prev.tlb
       /\ Len(last.status) = 10
       /\ last.status[1] = "linear address"
       /\ last.status[2] = "error code"
       /\ \A k \in 1 .. 7 :
             last.status[2 + k] = IF FaultLines[k][1] \in last.flags
                                  THEN FaultLines[k][2] ELSE FaultLines[k][3]
       /\ last.status[10] = "panic"

\* C14: every step ends in a state where, if the step was a page fault, the
\* handler has logged the address, the code and one line per decoded bit chosen
\* by that bit alone, and has panicked without changing a table; and no step
\* is taken once the kernel is halted, so the handler never returns.
C14_PageFaultFatal == [][~halted /\ AfterPageFault']_vars

\* a fault after a map built tables, with the protection-key bit set and the
\* instruction-fetch bit clear
C14_Witness ==
    /\ last.op = "page_fault"
    /\ halted
    /\ 5 \in last.flags /\ 4 \notin last.flags /\ 15 \in last.flags
    /\ last.status[8] = "protection key"
    /\ last.status[7] = "no instruction fetch"
    /\ used # {} /\ mem = prev.mem

\* the bit positions of the index field of a level in a virtual address
FieldBits(level) ==
    (PAGE_OFFSET_SIZE + PAGE_IDX_SIZE * level)
      .. (PAGE_OFFSET_SIZE + PAGE_IDX_SIZE * level + PAGE_IDX_SIZE - 1)

\* the value of that field, and the address with that field set to f
FieldOf(vaddr, level) ==
    {b - (PAGE_OFFSET_SIZE + PAGE_IDX_SIZE * level) : b \in vaddr \cap FieldBits(level)}
WithField(vaddr, level, f) ==
    (vaddr \ FieldBits(level))
      \cup {b + PAGE_OFFSET_SIZE + PAGE_IDX_SIZE * level : b \in f}

\* C15: paging_vaddr_idx(vaddr, level) is the value of the 9-bit field of vaddr
\* that belongs to level, a number in 0..511, and it stays the same when the
\* field of any other level is given any other value.
C15_IndexExtraction ==
    (last.op = "vaddr_idx")
    => /\ last.paddr = FieldOf(last.vaddr, last.num)
       /\ last.paddr \subseteq 0 .. PAGE_IDX_SIZE - 1
       /\ \A other \in (PML1 .. PML4) \ {last.num}, f \in FieldValues \cup {ToWord(1)} :
             paging_vaddr_idx(WithField(last.vaddr, other, f), last.num) = last.paddr

\* the top-level index of an address whose other fields, offset and upper
\* bits are all ones
C15_Witness ==
    /\ last.op = "vaddr_idx"
    /\ last.num = PML4
    /\ last.paddr = ToWord(341)
    /\ FieldOf(last.vaddr, PML1) = ToWord(511)
    /\ FieldOf(last.vaddr, 2) = ToWord(511)
    /\ 63 \in last.vaddr /\ 0 \in last.vaddr

\* the pages the single-page calls name
NamedPages == {PageOf(v) : v \in Vaddrs}

\* C16 (as claimed): the leaf lookup is a partial function from pages to
\* mappings that every call changes as a map or unmap of that function does.
\* In a run of __paging_map and __paging_unmap on one root, with flags that
\* hold PAGE_PRESENT and an allocator that has frames left, a map that reports
\* no conflict finds the page unmapped and leaves it present with its paddr, a
\* map that reports a conflict finds the page mapped and leaves its entry as it
\* was, an unmap leaves the page unmapped, and the lookup of every other page
\* is as before the call.
C16_PartialFunction ==
    (/\ last.op \in {"map", "unmap"} /\ last.root # NULL /\ Returned
     /\ Pool \ used # {}
     /\ (last.op = "map" => ValidFlags(last.flags))
     /\ (prev.last.op = "map" => ValidFlags(prev.last.flags)))
    => LET v == PageOf(last.vaddr)
           before == MappingOf(prev.mem, last.root, v)
           after == MappingOf(mem, last.root, v)
       IN  /\ (last.op = "map" /\ last.status = <<"ok">>)
              => /\ before = Unmapped
                 /\ after.mapped
                 /\ BitAnd(after.entry, PAGE_ADDR) = PageOf(last.paddr)
           /\ (last.op = "map" /\ last.status = <<"conflict">>)
              => before.mapped /\ after = before
           /\ (last.op = "unmap") => after = Unmapped
           /\ \A other \in NamedPages \ {v} :
                 MappingOf(mem, last.root, other) = MappingOf(prev.mem, last.root, other)

\* C17: paging_set_flags and paging_clear_flags with a mask that has no bit in
\* PAGE_ADDR leave paging_get_paddr of the entry as it was, and
\* paging_set_paddr leaves every bit of the entry outside PAGE_ADDR as it was
\* and makes paging_get_paddr return the paddr rounded down to the page
\* boundary and masked to PAGE_ADDR.
C17_FieldSeparation ==
    /\ (/\ last.op \in {"set_flags", "clear_flags"}
        /\ BitAnd(last.flags, PAGE_ADDR) = Zero)
       => paging_get_paddr(mem, last.root) = paging_get_paddr(prev.mem, last.root)
    /\ (last.op = "set_paddr")
       => /\ BitAnd(Load(mem, last.root), BitNot(PAGE_ADDR))
               = BitAnd(Load(prev.mem, last.root), BitNot(PAGE_ADDR))
          /\ paging_get_paddr(mem, last.root)
               = BitAnd(ALIGN_DOWN(last.paddr, PAGE_SIZE), PAGE_ADDR)

\* paging_set_paddr replaced another address in an entry that has flags, given
\* a paddr that is off its page boundary and wider than the address field
C17_Witness ==
    /\ last.op = "set_paddr"
    /\ ~Aligned(last.paddr) /\ 63 \in last.paddr
    /\ paging_get_paddr(prev.mem, last.root) \notin {Zero, paging_get_paddr(mem, last.root)}
    /\ BitAnd(Load(prev.mem, last.root), BitNot(PAGE_ADDR)) # Zero
    /\ paging_get_paddr(mem, last.root) = Wild
    /\ 63 \notin Load(mem, last.root)

\* the leaf entries of the pages the last range call names, as the lookup
\* finds them before the call
NamedLeafEntries ==
    {Lookup(prev.mem, last.root, PageAt(last.vaddr, i)).pentry :
       i \in {k \in 0 .. last.num - 1 :
                Lookup(prev.mem, last.root, PageAt(last.vaddr, k)).found}}

\* C18 (as claimed): __paging_unmaps (and __paging_unmap, its case num = 1)
\* changes no word of memory but the leaf entries of the pages it names and
\* returns no frame to the allocator, and no operation ever makes the set of
\* allocated frames smaller.
C18_UnmapNeverReclaims ==
    /\ prev.used \subseteq used
    /\ (last.op = "unmaps" /\ last.root # NULL /\ Returned)
       => /\ used = prev.used
          /\ \A a \in DOMAIN mem \cup DOMAIN prev.mem :
                Load(mem, a) # Load(prev.mem, a) => a \in NamedLeafEntries

\* every entry above the target level on the path of vaddr is present
AllPresent(m, root, vaddr, level) ==
    \A i \in level + 1 .. PML4 :
        paging_check_flags(m, PathEntry(m, root, vaddr, i), PAGE_PRESENT)

\* C19 (as claimed): on a non-null root, for every vaddr and target level,
\* paging_walk looks at one entry per level, from the top level down in steps
\* of one, makes at most (top level - target level + 1) iterations, and returns
\* the entry of the target level when every intermediate entry is present or
\* create is true.
C19_WalkBounded ==
    \A v \in Vaddrs \cup {Add(VBase, Skew)}, level \in PML1 .. PML4, create \in BOOLEAN :
        LET w == paging_walk(mem, used, Root, v, level, create, nulltrap)
        IN  /\ Len(w.seen) \in 1 .. PML4 - level + 1
            /\ \A k \in 1 .. Len(w.seen) : w.seen[k] = PML4 - (k - 1)
            /\ w.found
               => /\ w.seen[Len(w.seen)] = level
                  /\ w.pentry = PathEntry(w.mem, Root, v, level)
            /\ (create \/ AllPresent(mem, Root, v, level)) => w.found

\* processor c is out of a map that reported no conflict, and a leaf lookup
\* of the page does not find the page mapped to the frame of that map
LostMap(c) ==
    /\ cpus[c].pc = "done"
    /\ cpus[c].status = "ok"
    /\ LET w == Lookup(mem, Root, cpus[c].vaddr)
       IN  ~(/\ w.found
             /\ paging_check_flags(mem, w.pentry, PAGE_PRESENT)
             /\ paging_get_paddr(mem, w.pentry) = cpus[c].paddr)

Serial == \A c \in CPUs : cpus[c].serial

BothMapped ==
    /\ ~Serial
    /\ \A c \in CPUs :
          /\ cpus[c].pc = "done"
          /\ cpus[c].status = "ok"
          /\ cpus[c].curr_table \in Pool

C20_LinkOverwritten ==
    /\ BothMapped
    /\ cpus[1].vaddr # cpus[2].vaddr
    /\ cpus[1].curr_table # cpus[2].curr_table
    /\ \E c \in CPUs : LostMap(c)

==========================================================================
